---- MODULE Spec2Model ----
(***************************************************************************)
(* State-machine model of the scroll-driven logo animation                 *)
(* (InteractiveLogoAnimation), the scroll sampler of Home, the portal and  *)
(* journey toggles of the main menu, and the cinematic journey             *)
(* (CinematicJourneyMode) of the BIRTEDI home page.                        *)
(*                                                                         *)
(* Ratios (scrollProgress, interpolatedScroll, progress values) are        *)
(* fixed-point numbers in units of 1/10000, so 0.0001 is 1 and 0.35 is     *)
(* 3500.  Times are milliseconds.  null is modelled by Null (-1).          *)
(*                                                                         *)
(* One action is one browser task (an animation-frame callback, a timeout  *)
(* callback, an input event) together with the React re-renders and        *)
(* effects it triggers, because React flushes them before the next task.   *)
(***************************************************************************)
EXTENDS Integers, FiniteSets, Sequences, TLC

\* A frame callback runs at most once per time slice of the clock, and a
\* timeout fires in the slice in which it falls due.
VARIABLES
    now,                    \* Date.now(), ms
    homeFrameRan,           \* Home's frame callback already ran in this time slice
    interpFrameRan,         \* the interpolation frame callback already ran in this time slice
    scrollY,                \* window.scrollY as read by the latest frame of Home's loop (px)
    previousScrollY,        \* Home: previousScrollY.current (px)
    scale,                  \* Home: scale state
    scrollProgress,         \* Home: scrollProgress state, prop of the logo animation
    scrollChanges,          \* number of times scrollProgress has changed (bounded)
    interpolatedScroll,     \* logo: interpolatedScroll state
    interpDelta,            \* logo: scrollDelta as captured by the pending frame callback
    interpRaf,              \* logo: an interpolation frame callback is requested
    fallStartTime,          \* logo: fallStartTime state (Null when null)
    canExpand,              \* logo: canExpand state
    fallTimers,             \* logo: pending setTimeout(checkFallDuration) calls
    animationStage,         \* logo: animationStage state, 0..6
    previousScrollProgress, \* logo: previousScrollProgress state
    displayFallProgress,    \* logo: displayFallProgress last used for the square
    fallWasReset,           \* history: the fall timer has been reset at least once
    fallShownAt,            \* history: time stage Fall was first reported (Null: not since below Fall)
    monotoneScroll,         \* history: every scroll sample so far was >= the one before
    isPortalOpen,           \* DigitalPortal: isPortalOpen state
    portalToggledFrom,      \* history: isPortalOpen before the latest toggle() ("none", "open", "closed")
    showJourneyMode,        \* Home: showJourneyMode state (CinematicJourneyMode mounted)
    homeMounted,            \* Home and the components it renders are mounted
    isActive,               \* journey: isActive state
    currentScene,           \* journey: currentScene state
    isTransitioning,        \* journey: isTransitioning state
    isIntroComplete,        \* journey: isIntroComplete state
    cameraPosition,         \* journey: cameraPosition state, zoom in tenths
    bodyOverflow,           \* document.body.style.overflow
    journeyTimers,          \* journey: pending setTimeout calls with their closures
    journeyInputs,          \* number of user inputs given to the journey (bounded)
    keyHandlerIntro,        \* journey: isIntroComplete as captured by the registered keydown handler
    sceneEnteredAt,         \* history: time currentScene last changed
    lastTransition,         \* history: number, index and target lookup of the latest transition started
    rafQueue,               \* window: requested animation-frame callbacks, [id, cb]
    rafSeq,                 \* window: the latest id requestAnimationFrame returned
    particlesRaf,           \* ParticlesCanvas: animationRef.current
    gridRaf,                \* AudioReactiveGrid: animationRef.current
    audioRaf,               \* AudioReactiveGrid: animationFrameId of the simulated-audio effect
    portalRaf,              \* DigitalPortal: animationRef.current
    logoRaf,                \* logo: animationFrame of the latest run of the animation effect
    listeners,              \* registered event listeners, [owner, target, type, handler]
    glObjects,              \* WebGL objects of the grid that exist and are not deleted
    glReady,                \* AudioReactiveGrid: glContextRef.current holds gl and program
    isDragging,             \* DigitalPortal: isDragging state
    dragStartedIn,          \* history: the region of the portal the latest drag began in
    vrButtonMode,           \* VRModeButton: isVRMode state
    vrPermission,           \* VRModeButton: deviceOrientationPermissionState
    vrPending,              \* VRModeButton: requestPermission() promises not yet settled
    gridVRMode,             \* EnhancedAudioReactiveGrid: isVRMode state
    particle,               \* ParticlesCanvas: one entry of particlesRef.current
    particleFrames,         \* number of animate() steps applied to the particle (bounded)
    squareInputs,           \* logo: what a frame of the square is computed from
    squareTransform,        \* logo: squareRef.current.style.transform
    squareFrames,           \* number of animateEffects frames run on the square (bounded)
    frameResults,           \* history: the transforms the animateEffects frames have written
    paintInputs,            \* logo: animationStage, interpolatedScroll, canExpand the latest run of calculateStages saw
    paintStage,             \* logo: animationStage as that run set it
    squareStyle,            \* logo: what calculateStages has written to the square
    previousPaint,          \* history: squareStyle after the run before the latest
    glowParticles,          \* GlowingParticlesEffect: particles state, the life of each in hundredths
    glowInterval,           \* GlowingParticlesEffect: when the decay interval fires next (Null: none set)
    glowSince,              \* history: time of the latest decay tick, or of the first particle if later
    scrollX,                \* HorizontalScrollCards: scrollX state (px)
    requestedScrollX,       \* history: the position the latest write asked for, before its clamp
    cardDragging,           \* HorizontalScrollCards: isDragging.current
    startX,                 \* HorizontalScrollCards: startX.current
    scrollLeft,             \* HorizontalScrollCards: scrollLeft.current
    velocityX,              \* HorizontalScrollCards: velocityX.current (px/s)
    lastScrollX,            \* HorizontalScrollCards: lastScrollX.current
    momentumPending,        \* requested animateMomentum callbacks, each the scrollX its closure holds
    momentumRef,            \* HorizontalScrollCards: momentumRef.current (Null, or the closure's scrollX)
    isSectionActive,        \* HorizontalScrollCards: isSectionActive state
    allowScroll,            \* HorizontalScrollCards: allowScroll state
    carouselSteps           \* number of events and momentum frames of the carousel (bounded)

logoVars == <<homeFrameRan, interpFrameRan, scrollY, previousScrollY, scale, scrollProgress,
              scrollChanges, interpolatedScroll, interpDelta, interpRaf,
              fallStartTime, canExpand, fallTimers, animationStage,
              previousScrollProgress, displayFallProgress, fallWasReset,
              fallShownAt, monotoneScroll>>

menuVars == <<isPortalOpen, portalToggledFrom, showJourneyMode, homeMounted>>

journeyVars == <<isActive, currentScene, isTransitioning, isIntroComplete,
                 cameraPosition, bodyOverflow, journeyTimers, journeyInputs,
                 keyHandlerIntro, sceneEnteredAt, lastTransition>>

rafVars == <<rafQueue, rafSeq, particlesRaf, gridRaf, audioRaf, portalRaf, logoRaf>>

vrVars == <<vrButtonMode, vrPermission, vrPending, gridVRMode>>

effectVars == <<rafVars, listeners, glObjects, glReady, isDragging, dragStartedIn, vrVars>>

particleVars == <<particle, particleFrames>>

squareVars == <<squareInputs, squareTransform, squareFrames, frameResults>>

styleVars == <<paintInputs, paintStage, squareStyle, previousPaint>>

glowVars == <<glowParticles, glowInterval, glowSince>>

carouselVars == <<scrollX, requestedScrollX, cardDragging, startX, scrollLeft,
                  velocityX, lastScrollX, momentumPending, momentumRef,
                  isSectionActive, allowScroll, carouselSteps>>

pureVars == <<particleVars, squareVars, styleVars, glowVars, carouselVars>>

vars == <<now, logoVars, menuVars, journeyVars, effectVars, pureVars>>

----------------------------------------------------------------------------
(* Bounds of the model *)


\* The logo-animation specification stops the clock here.
MaxTime == 2400

\* Number of changes of scrollProgress explored.
MaxScrollChanges == 3

\* Elements matching 'a, button, [role="button"]' when CustomCursor mounts.
InteractiveElements == {"menu button", "contact link"}

\* window.scrollY values (px) the sampler may read.
ScrollSamples == {0, 150, 160, 400}

\* The offsets of the sampler specification: those and offsets 1 px from them.
SamplerSamples == ScrollSamples \cup {1, 149, 401}

\* interpolatedScroll is followed while |interpolatedScroll| <= MaxInterp.
MaxInterp == 12000

\* The overlay specification stops the clock here.
MaxJourneyTime == 12000

\* Number of user inputs (toggles, keys, clicks) given to the journey.
MaxJourneyInputs == 3

\* The renderer specification stops requesting animation frames here.
MaxRafIds == 10

\* requestPermission() promises that may be pending at once.
MaxPendingPermissions == 2

\* Canvas of the particle field, in tenths of a pixel (200 px by 100 px).
CanvasWidth == 2000

CanvasHeight == 1000

\* animate() steps applied to the particle.
MaxParticleFrames == 3

\* Where the particle starts, how it drifts and where the pointer is, in
\* tenths of a pixel.
ParticleStartsX == {0, 1, CanvasWidth \div 2, CanvasWidth - 1}

ParticleStartsY == {0, 1, CanvasHeight \div 2, CanvasHeight - 1}

ParticleSpeeds == {-2, 0, 2}

ParticlePointers == {<<0, 0>>, <<CanvasWidth \div 2 + 30, CanvasHeight \div 2 - 40>>}

\* Particles of the glow trail followed at once.
MaxGlowParticles == 4

\* The glow specification stops the clock here.
MaxGlowTime == 300

\* Events and momentum frames of the carousel.
MaxCarouselSteps == 5

\* animateEffects frames run on the square.
MaxSquareFrames == 3

\* Centres of a matched target element relative to the viewport centre
\* (centerX, centerY of transitionToScene), px.
TargetCenters == {<<0, 200>>}

----------------------------------------------------------------------------
(* Helpers *)

Null == -1

Unit == 10000

Min(a, b) == IF a < b THEN a ELSE b

Max(a, b) == IF a > b THEN a ELSE b

Abs(a) == IF a < 0 THEN -a ELSE a

\* a * n / d, rounded toward zero.
MulDiv(a, n, d) == IF a >= 0 THEN (a * n) \div d ELSE -(((-a) * n) \div d)

----------------------------------------------------------------------------
(* InteractiveLogoAnimation: constants and pure functions *)

ANIMATION_RANGES ==
    [initialToAbsorb |-> <<0, 1500>>,
     absorbToRelease |-> <<1500, 2500>>,
     releaseToFloat  |-> <<2500, 3500>>,
     floatToFall     |-> <<3500, 4500>>,
     fallToExpand    |-> <<4500, 5500>>,
     expandToFinal   |-> <<5500, 6500>>]

minFallDuration == 1000

\* smoothFactor = 0.12 = 12 / 100
smoothFactorNum == 12

smoothFactorDen == 100

\* Math.abs(scrollDelta) > 0.0001
interpEpsilon == 1

maxScroll == 400

normalizeProgress(current, min, max) ==
    Min(Unit, Max(0, MulDiv(current - min, Unit, max - min)))

\* calculateStages without the dwell gate on the Fall branch.
CalculateStage_NoGate(s, ce) ==
    IF s < ANIMATION_RANGES.initialToAbsorb[2] THEN 0
    ELSE IF s < ANIMATION_RANGES.absorbToRelease[2] THEN 1
    ELSE IF s < ANIMATION_RANGES.releaseToFloat[2] THEN 2
    ELSE IF s < ANIMATION_RANGES.floatToFall[2] THEN 3
    ELSE IF s < ANIMATION_RANGES.fallToExpand[2] THEN 4
    ELSE IF s < ANIMATION_RANGES.expandToFinal[2] THEN 5
    ELSE 6

\* calculateStages with the Fall branch bounded by the start of fallToExpand
\* instead of its end.
CalculateStage_FallRangeStart(s, ce) ==
    IF s < ANIMATION_RANGES.initialToAbsorb[2] THEN 0
    ELSE IF s < ANIMATION_RANGES.absorbToRelease[2] THEN 1
    ELSE IF s < ANIMATION_RANGES.releaseToFloat[2] THEN 2
    ELSE IF s < ANIMATION_RANGES.floatToFall[2] THEN 3
    ELSE IF ~ce \/ s < ANIMATION_RANGES.fallToExpand[1] THEN 4
    ELSE IF s < ANIMATION_RANGES.expandToFinal[2] THEN 5
    ELSE 6

\* The if / else-if chain of calculateStages that picks the stage.
CalculateStage(s, ce) ==
    IF s < ANIMATION_RANGES.initialToAbsorb[2] THEN 0
    ELSE IF s < ANIMATION_RANGES.absorbToRelease[2] THEN 1
    ELSE IF s < ANIMATION_RANGES.releaseToFloat[2] THEN 2
    ELSE IF s < ANIMATION_RANGES.floatToFall[2] THEN 3
    ELSE IF ~ce \/ s < ANIMATION_RANGES.fallToExpand[2] THEN 4
    ELSE IF s < ANIMATION_RANGES.expandToFinal[2] THEN 5
    ELSE 6

\* fallProgress, capped at 95% while canExpand is false.
DisplayFallProgress(s, ce) ==
    LET fallProgress == normalizeProgress(s, ANIMATION_RANGES.floatToFall[1],
                                          ANIMATION_RANGES.floatToFall[2])
    IN  IF ~ce /\ fallProgress > 9500 THEN 9500 ELSE fallProgress

\* The effect on [interpolatedScroll, fallStartTime]: starts or resets the
\* fall timer.  i, f, c are the rendered interpolatedScroll, fallStartTime
\* and canExpand.
FallTimerEffect(i, f, c) ==
    IF i >= ANIMATION_RANGES.floatToFall[1] /\ f = Null
    THEN [fst |-> now, ce |-> c, reset |-> FALSE]
    ELSE IF i < ANIMATION_RANGES.floatToFall[1] /\ f # Null
    THEN [fst |-> Null, ce |-> FALSE, reset |-> TRUE]
    ELSE [fst |-> f, ce |-> c, reset |-> FALSE]

\* checkFallDuration without the setTimeout of its else branch.
CheckFallDuration_NoRetry(start, c, T) ==
    LET fallDuration == now - start
    IN  IF fallDuration >= minFallDuration
        THEN [ce |-> TRUE, timers |-> T]
        ELSE [ce |-> c, timers |-> T]

\* checkFallDuration with the fallStartTime it closed over: opens the gate
\* or schedules itself again after the remaining time.  T is the set of
\* pending timeouts.
CheckFallDuration(start, c, T) ==
    LET fallDuration == now - start
    IN  IF fallDuration >= minFallDuration
        THEN [ce |-> TRUE, timers |-> T]
        ELSE [ce |-> c,
              timers |-> T \cup {[fire  |-> now + (minFallDuration - fallDuration),
                                  start |-> start]}]

\* The re-renders that follow a task which left interpolatedScroll = i,
\* canExpand = c and the pending timeouts T: the fall-timer effect, the
\* effect on [fallStartTime] (checkFallDuration) and calculateStages, run
\* until no state changes any more.
RunEffects(i, c, T) ==
    LET e   == FallTimerEffect(i, fallStartTime, c)
        chk == IF e.fst # fallStartTime /\ e.fst # Null
               THEN CheckFallDuration(e.fst, e.ce, T)
               ELSE [ce |-> e.ce, timers |-> T]
        stg == CalculateStage(i, chk.ce)
    IN  /\ fallStartTime' = e.fst
        /\ canExpand' = chk.ce
        /\ fallTimers' = chk.timers
        /\ animationStage' = stg
        /\ previousScrollProgress' = i
        /\ displayFallProgress' =
               IF stg = 4 THEN DisplayFallProgress(i, chk.ce)
               ELSE IF animationStage = 4 THEN DisplayFallProgress(i, c)
               ELSE displayFallProgress
        /\ fallWasReset' = (fallWasReset \/ e.reset)
        /\ fallShownAt' = IF stg < 4 THEN Null
                          ELSE IF stg = 4 /\ fallShownAt = Null THEN now
                          ELSE fallShownAt

----------------------------------------------------------------------------
(* Home: the scroll sampler *)

\* The time slice of the logo-animation specification: a fifth of the dwell.
TickMs == minFallDuration \div 5

minScale == 1500

\* easeOutCubic: 1 - (1 - x)^3
easeOutCubic(x) ==
    Unit - MulDiv(MulDiv(Unit - x, Unit - x, Unit), Unit - x, Unit)

\* newScale of animateScroll for a scroll ratio.
NewScale(scrollRatio) ==
    Max(minScale, Unit - MulDiv(easeOutCubic(scrollRatio), Unit - minScale, Unit))

\* The throttle of animateScroll taken as "the offset differs at all".
ScrollChangedSignificantly_AnyDifference(y, previous) ==
    y # previous

\* The throttle of animateScroll: the offset has changed by more than 1 px.
ScrollChangedSignificantly(y, previous) ==
    Abs(y - previous) > 1

\* Home.animateScroll, the frame callback that samples window.scrollY = y.
\* A changed scrollProgress re-runs the interpolation effect of the logo
\* animation: it cancels the pending frame and requests a new one whose
\* callback closes over the scrollProgress and interpolatedScroll rendered
\* at that moment.
AnimateScroll(y) ==
    /\ ~homeFrameRan
    /\ homeFrameRan' = TRUE
    /\ scrollY' = y
    /\ IF ScrollChangedSignificantly(y, previousScrollY)
       THEN LET scrollRatio == Min(Unit, MulDiv(y, Unit, maxScroll))
            IN  /\ scale' = NewScale(scrollRatio)
                /\ previousScrollY' = y
                /\ scrollProgress' = scrollRatio
                /\ IF scrollRatio # scrollProgress
                   THEN /\ scrollChanges < MaxScrollChanges
                        /\ scrollChanges' = scrollChanges + 1
                        /\ interpDelta' = scrollRatio - interpolatedScroll
                        /\ interpRaf' = TRUE
                        /\ monotoneScroll' = (monotoneScroll /\ scrollRatio >= scrollProgress)
                   ELSE UNCHANGED <<scrollChanges, interpDelta, interpRaf, monotoneScroll>>
       ELSE UNCHANGED <<scale, previousScrollY, scrollProgress, scrollChanges,
                        interpDelta, interpRaf, monotoneScroll>>
    /\ UNCHANGED <<now, interpFrameRan, interpolatedScroll, fallStartTime,
                   canExpand, fallTimers, animationStage, previousScrollProgress,
                   displayFallProgress, fallWasReset, fallShownAt>>
    /\ UNCHANGED <<menuVars, journeyVars, effectVars, pureVars>>

\* A frame of Home's loop, reading any of the scroll offsets.
AnimateScrollFrame == \E y \in ScrollSamples : AnimateScroll(y)

\* A frame of Home's loop in the sampler specification.
SamplerFrame == \E y \in SamplerSamples : AnimateScroll(y)

----------------------------------------------------------------------------
(* InteractiveLogoAnimation: tasks *)

\* smoothScrollInterpolation, the frame callback of the interpolation
\* effect.  scrollDelta is the difference the callback closed over; the
\* functional update adds to the current interpolatedScroll.
SmoothScrollInterpolation ==
    /\ interpRaf
    /\ ~interpFrameRan
    /\ Abs(interpolatedScroll) <= MaxInterp
    /\ interpFrameRan' = TRUE
    /\ LET i == IF Abs(interpDelta) > interpEpsilon
                THEN interpolatedScroll + MulDiv(interpDelta, smoothFactorNum, smoothFactorDen)
                ELSE scrollProgress
       IN  /\ interpolatedScroll' = i
           /\ interpRaf' = (Abs(interpDelta) > interpEpsilon)
           /\ RunEffects(i, canExpand, fallTimers)
    /\ UNCHANGED <<now, homeFrameRan, scrollY, previousScrollY, scale, scrollProgress,
                   scrollChanges, interpDelta, monotoneScroll>>
    /\ UNCHANGED <<menuVars, journeyVars, effectVars, pureVars>>

\* A timeout set by checkFallDuration fires and runs checkFallDuration
\* again with the fallStartTime of the render that scheduled it.
FallTimeout(t) ==
    /\ t \in fallTimers
    /\ t.fire <= now
    /\ LET chk == CheckFallDuration(t.start, canExpand, fallTimers \ {t})
       IN  RunEffects(interpolatedScroll, chk.ce, chk.timers)
    /\ UNCHANGED <<now, homeFrameRan, interpFrameRan, scrollY, previousScrollY,
                   scale, scrollProgress, scrollChanges, interpolatedScroll,
                   interpDelta, interpRaf, monotoneScroll>>
    /\ UNCHANGED <<menuVars, journeyVars, effectVars, pureVars>>

FallTimeoutFires == \E t \in fallTimers : FallTimeout(t)

\* Time passes by one slice; a due timeout fires before the clock moves on.
Tick ==
    /\ now < MaxTime
    /\ \A t \in fallTimers : t.fire > now
    /\ now' = now + TickMs
    /\ homeFrameRan' = FALSE
    /\ interpFrameRan' = FALSE
    /\ UNCHANGED <<scrollY, previousScrollY, scale, scrollProgress, scrollChanges,
                   interpolatedScroll, interpDelta, interpRaf, fallStartTime,
                   canExpand, fallTimers, animationStage, previousScrollProgress,
                   displayFallProgress, fallWasReset, fallShownAt, monotoneScroll>>
    /\ UNCHANGED <<menuVars, journeyVars, effectVars, pureVars>>

----------------------------------------------------------------------------
(* Animation frames, event listeners and WebGL objects of the effects *)

\* The loops of Home.animateScroll and of the logo's scroll interpolation
\* are modelled above (homeFrameRan, interpRaf); the registry below holds the
\* frame callbacks of the canvas renderers and of the logo's animateEffects.

\* The children of the portal div: the header (handleStyle, the top 30 px)
\* and the canvas below it.
PortalRegions == {"header", "canvas"}

\* The animation-frame state the effects read and write.
RafState ==
    [queue |-> rafQueue, seq |-> rafSeq, particles |-> particlesRaf,
     grid |-> gridRaf, audio |-> audioRaf, portal |-> portalRaf, logo |-> logoRaf]

\* requestAnimationFrame(cb); the id it returns is the seq of the result.
RequestAnimationFrame(r, cb) ==
    [r EXCEPT !.seq = @ + 1, !.queue = @ \cup {[id |-> r.seq + 1, cb |-> cb]}]

CancelAnimationFrame(r, id) ==
    [r EXCEPT !.queue = {q \in @ : q.id # id}]

\* animate of ParticlesCanvas re-requesting itself without keeping the id.
ParticlesAnimate_IdDropped(r) ==
    RequestAnimationFrame(r, "ParticlesCanvas.animate")

\* animate of ParticlesCanvas: draws, then
\* animationRef.current = requestAnimationFrame(animate).
ParticlesAnimate(r) ==
    LET q == RequestAnimationFrame(r, "ParticlesCanvas.animate")
    IN  [q EXCEPT !.particles = q.seq]

\* The animation-loop effect of ParticlesCanvas re-runs (dependencies
\* [dimensions, mousePosition, scrollProgress]): clean-up, then animate().
ParticlesLoopEffect(r) ==
    ParticlesAnimate(CancelAnimationFrame(r, r.particles))

\* simulateAudio of AudioReactiveGrid: setAudioData, then
\* animationFrameId = requestAnimationFrame(simulateAudio).
SimulateAudio(r) ==
    LET q == RequestAnimationFrame(r, "AudioReactiveGrid.simulateAudio")
    IN  [q EXCEPT !.audio = q.seq]

\* animate of AudioReactiveGrid.
GridAnimate(r) ==
    LET q == RequestAnimationFrame(r, "AudioReactiveGrid.animate")
    IN  [q EXCEPT !.grid = q.seq]

\* The animation-loop effect of AudioReactiveGrid re-runs (dependencies
\* [mousePosition, audioData, scrollProgress]); without gl and program it
\* returns at once and has no clean-up.
GridLoopEffect(r, ready) ==
    IF ready THEN GridAnimate(CancelAnimationFrame(r, r.grid)) ELSE r

\* animate of DigitalPortal.startSimulation.
PortalAnimate(r) ==
    LET q == RequestAnimationFrame(r, "DigitalPortal.animate")
    IN  [q EXCEPT !.portal = q.seq]

\* The animation effect of the logo re-runs: the clean-up cancels the id the
\* previous run kept in animationFrame, then the effect requests
\* animateEffects and keeps that id.
LogoAnimationEffect(r) ==
    LET q == RequestAnimationFrame(CancelAnimationFrame(r, r.logo),
                                   "InteractiveLogoAnimation.animateEffects")
    IN  [q EXCEPT !.logo = q.seq]

\* animateEffects re-requests itself; the id is not kept.
AnimateEffects(r) ==
    RequestAnimationFrame(r, "InteractiveLogoAnimation.animateEffects")

\* Writes the animation-frame state r into the variables.
SetRaf(r) ==
    /\ rafQueue' = r.queue
    /\ rafSeq' = r.seq
    /\ particlesRaf' = r.particles
    /\ gridRaf' = r.grid
    /\ audioRaf' = r.audio
    /\ portalRaf' = r.portal
    /\ logoRaf' = r.logo

Listener(owner, target, type, handler) ==
    [owner |-> owner, target |-> target, type |-> type, handler |-> handler]

\* The listener of useMousePosition in the component owner.
MousePositionListener(owner) ==
    Listener(owner, "window", "mousemove", "updateMousePosition")

\* handleMouseEnter and handleMouseLeave of CustomCursor on the document.
CursorDocumentListeners ==
    {Listener("CustomCursor", "document", "mouseenter", "handleMouseEnter"),
     Listener("CustomCursor", "document", "mouseleave", "handleMouseLeave")}

\* The listeners on the interactive elements, for the function objects
\* enter and leave.
CursorElementListeners(enter, leave) ==
    {Listener("CustomCursor", el, "mouseenter", enter) : el \in InteractiveElements}
    \cup {Listener("CustomCursor", el, "mouseleave", leave) : el \in InteractiveElements}

\* The effect of CustomCursor; every arrow function expression is a
\* function object of its own.
CustomCursorEffect(L) ==
    L \cup CursorDocumentListeners
      \cup CursorElementListeners("arrow function of line 41", "arrow function of line 42")

\* The clean-up of that effect: removeEventListener removes the listener
\* whose function object it is given.
CustomCursorCleanup(L) ==
    (L \ CursorDocumentListeners)
       \ CursorElementListeners("arrow function of line 50", "arrow function of line 51")

\* The listener the drag effect of DigitalPortal adds while dragging.
DragListener == Listener("DigitalPortal", "window", "mousemove", "handleMouseMove")

\* The listener EnhancedAudioReactiveGrid adds while its isVRMode is true.
OrientationListener ==
    Listener("EnhancedAudioReactiveGrid", "window", "deviceorientation", "handleDeviceOrientation")

\* The listeners the mount effects of the renderers add.
RendererMountListeners ==
    {MousePositionListener("ParticlesCanvas"),
     Listener("ParticlesCanvas", "window", "resize", "handleResize"),
     MousePositionListener("AudioReactiveGrid"),
     Listener("AudioReactiveGrid", "window", "resize", "handleResize"),
     Listener("EnhancedAudioReactiveGrid", "window", "vr-mode-toggle", "handleVRModeToggle"),
     MousePositionListener("DigitalPortal"),
     MousePositionListener("CustomCursor")}

\* How the WebGL initialisation of AudioReactiveGrid may end.
GlOutcomes ==
    {"no context", "no vertex shader", "no fragment shader",
     "vertex compile failed", "fragment compile failed",
     "no program", "link failed", "ok"}

GlAllObjects ==
    {"vertexShader", "fragmentShader", "program",
     "positionBuffer", "uvBuffer", "indexBuffer"}

\* The objects the initialisation effect has created when it ends that way.
GlCreated(outcome) ==
    CASE outcome = "no context" -> {}
      [] outcome = "no vertex shader" -> {"fragmentShader"}
      [] outcome = "no fragment shader" -> {"vertexShader"}
      [] outcome \in {"vertex compile failed", "fragment compile failed", "no program"}
            -> {"vertexShader", "fragmentShader"}
      [] outcome = "link failed" -> {"vertexShader", "fragmentShader", "program"}
      [] outcome = "ok" -> GlAllObjects

\* The clean-up of the initialisation effect, which the effect returns only
\* when it ran to its end.
GlCleanup(objects, ready) ==
    IF ready THEN objects \ GlAllObjects ELSE objects

----------------------------------------------------------------------------
(* MainMenu: the controller handles *)

\* portalController.toggle: togglePortal as assigned by the mount effect of
\* DigitalPortal (dependencies []), so the isPortalOpen it negates is the
\* one rendered at mount.  When isPortalOpen changes, the simulation effect
\* (dependencies [isPortalOpen]) runs startSimulation.
TogglePortal ==
    LET isPortalOpenAtMount == FALSE
    IN  /\ homeMounted
        /\ isPortalOpen' = ~isPortalOpenAtMount
        /\ portalToggledFrom' = (IF isPortalOpen THEN "open" ELSE "closed")
        /\ SetRaf(IF isPortalOpen THEN RafState ELSE PortalAnimate(RafState))
        /\ UNCHANGED <<now, logoVars, pureVars, showJourneyMode, homeMounted, journeyVars,
                       listeners, glObjects, glReady, isDragging, dragStartedIn, vrVars>>

\* cinematicJourneyController.toggle: toggleCinematicJourney as assigned by
\* the mount effect of Home (dependencies []).  It mounts
\* CinematicJourneyMode, whose state starts inactive.
ToggleCinematicJourney ==
    LET showJourneyModeAtMount == FALSE
    IN  /\ homeMounted
        /\ showJourneyMode' = ~showJourneyModeAtMount
        /\ UNCHANGED <<now, logoVars, pureVars, isPortalOpen, portalToggledFrom, homeMounted, journeyVars, effectVars, pureVars>>

----------------------------------------------------------------------------
(* CinematicJourneyMode *)

\* narrativeText and showNarrative, and the timeouts that only write them
\* (800 ms, 8000 ms, scene.duration - 1000), are left out: nothing else
\* reads them.  window.scrollTo(0, 0) of the activate branch is left out as
\* well: the scroll offset is an input of AnimateScroll.  A timeout record
\* carries what its callback closed over: cCur, cAct and cIntro are the
\* currentScene, isActive and isIntroComplete of the render that created it.

\* camera (zoom in tenths) and duration of journeyScenes[index].
journeyScenes ==
    [i \in 0..5 |->
        CASE i = 0 -> [target |-> FALSE, camera |-> [x |-> 0,   y |-> 0,    zoom |-> 10], duration |-> 4000]
          [] i = 1 -> [target |-> TRUE,  camera |-> [x |-> 0,   y |-> -100, zoom |-> 15], duration |-> 5000]
          [] i = 2 -> [target |-> TRUE,  camera |-> [x |-> 0,   y |-> 0,    zoom |-> 12], duration |-> 5000]
          [] i = 3 -> [target |-> TRUE,  camera |-> [x |-> -50, y |-> 0,    zoom |-> 18], duration |-> 4000]
          [] i = 4 -> [target |-> TRUE,  camera |-> [x |-> 30,  y |-> 20,   zoom |-> 13], duration |-> 5000]
          [] i = 5 -> [target |-> TRUE,  camera |-> [x |-> 0,   y |-> 0,    zoom |-> 11], duration |-> 4000]]

\* setTimeout delays of the component
introZoomDelay == 3000

introReadyDelay == 6000

beginJourneyDelay == 1000

transitionDuration == 1500

JourneyTickMs == transitionDuration \div 3

ResetCamera == [x |-> 0, y |-> 0, zoom |-> 10]

\* querySelectorAll(scene.target) matched nothing, or the scene has no target.
NoElement == <<>>

\* What the target lookup of a scene may give: no element, or an element
\* with one of the centres.
TargetLookups(index) ==
    IF journeyScenes[index].target THEN {NoElement} \cup TargetCenters ELSE {NoElement}

\* newPosition falling back to the origin when the target is missing.
NewPosition_OriginOnMissing(index, lookup) ==
    LET scene == journeyScenes[index]
    IN  IF lookup = NoElement
        THEN [x |-> 0, y |-> 0, zoom |-> scene.camera.zoom]
        ELSE [x |-> -lookup[1] + scene.camera.x,
              y |-> -lookup[2] + scene.camera.y,
              zoom |-> scene.camera.zoom]

\* newPosition of transitionToScene for a lookup result.
NewPosition(index, lookup) ==
    LET scene == journeyScenes[index]
    IN  IF lookup = NoElement
        THEN scene.camera
        ELSE [x |-> -lookup[1] + scene.camera.x,
              y |-> -lookup[2] + scene.camera.y,
              zoom |-> scene.camera.zoom]

\* A journey state: the fields the effects read and write.
JourneyState ==
    [act |-> isActive, cur |-> currentScene, trans |-> isTransitioning,
     intro |-> isIntroComplete, cam |-> cameraPosition,
     overflow |-> bodyOverflow, timers |-> journeyTimers,
     keyIntro |-> keyHandlerIntro, last |-> lastTransition]

\* transitionToScene(index) called through a closure that rendered
\* isTransitioning = cTrans, currentScene = cCur, isActive = cAct and
\* isIntroComplete = cIntro, applied to the journey state st.
TransitionToScene(st, index, cTrans, cCur, cAct, cIntro, lookup) ==
    IF cTrans \/ index = cCur \/ index \notin DOMAIN journeyScenes
    THEN st
    ELSE [st EXCEPT !.trans = TRUE,
                    !.cam = NewPosition(index, lookup),
                    !.cur = index,
                    !.last = [n |-> @.n + 1, index |-> index, lookup |-> lookup],
                    !.timers = @ \cup {[kind |-> "done", fire |-> now + transitionDuration,
                                        index |-> index, cCur |-> cCur,
                                        cAct |-> cAct, cIntro |-> cIntro]}]

\* The body of toggleJourneyMode for a render with isActive = st.act.
ToggleJourneyModeBody(st) ==
    IF st.act
    THEN [st EXCEPT !.act = FALSE, !.cur = 0, !.intro = FALSE,
                    !.cam = ResetCamera, !.overflow = ""]
    ELSE [st EXCEPT !.act = TRUE]

\* The intro effect (dependencies [isActive, isIntroComplete]) for the
\* change from the rendered state old to st: the clean-up of the previous
\* run, which closed over old.act, then the effect itself.
IntroEffect(old, st) ==
    IF st.act = old.act /\ st.intro = old.intro
    THEN st
    ELSE LET cleaned == IF ~old.act THEN [st EXCEPT !.overflow = ""] ELSE st
         IN  IF st.act /\ ~st.intro
             THEN [cleaned EXCEPT
                     !.overflow = "hidden",
                     !.timers = @ \cup
                        {[kind |-> "zoom", fire |-> now + introZoomDelay, index |-> 0,
                          cCur |-> st.cur, cAct |-> st.act, cIntro |-> st.intro],
                         [kind |-> "ready", fire |-> now + introReadyDelay, index |-> 0,
                          cCur |-> st.cur, cAct |-> st.act, cIntro |-> st.intro]}]
             ELSE cleaned

\* The begin-journey effect (dependencies [isActive, isIntroComplete,
\* isTransitioning, currentScene]).
BeginJourneyEffect(old, st) ==
    IF st.act = old.act /\ st.intro = old.intro /\ st.trans = old.trans /\ st.cur = old.cur
    THEN st
    ELSE IF st.act /\ st.intro /\ ~st.trans /\ st.cur = 0
         THEN [st EXCEPT !.timers = @ \cup
                  {[kind |-> "begin", fire |-> now + beginJourneyDelay, index |-> 1,
                    cCur |-> st.cur, cAct |-> st.act, cIntro |-> st.intro]}]
         ELSE st

\* The keyboard effect (dependencies [isActive, currentScene,
\* isTransitioning]) registers a new handleKeyDown, which closes over the
\* isIntroComplete of that render.
KeyboardEffect(old, st) ==
    IF st.act = old.act /\ st.cur = old.cur /\ st.trans = old.trans
    THEN st
    ELSE [st EXCEPT !.keyIntro = st.intro]

\* The re-render after a task changed the journey state from old to st.
JourneyEffects(old, st) ==
    KeyboardEffect(old, BeginJourneyEffect(old, IntroEffect(old, st)))

\* Writes the journey state st into the variables.
SetJourney(st) ==
    /\ isActive' = st.act
    /\ currentScene' = st.cur
    /\ isTransitioning' = st.trans
    /\ isIntroComplete' = st.intro
    /\ cameraPosition' = st.cam
    /\ bodyOverflow' = st.overflow
    /\ journeyTimers' = st.timers
    /\ keyHandlerIntro' = st.keyIntro
    /\ sceneEnteredAt' = (IF st.cur # currentScene THEN now ELSE sceneEnteredAt)
    /\ lastTransition' = st.last

CountJourneyInput ==
    /\ journeyInputs < MaxJourneyInputs
    /\ journeyInputs' = journeyInputs + 1

\* toggleJourneyMode called while the journey is inactive: the entry that
\* its comment documents for the main menu.
ActivateJourney ==
    /\ homeMounted /\ showJourneyMode
    /\ ~isActive
    /\ CountJourneyInput
    /\ SetJourney(JourneyEffects(JourneyState, ToggleJourneyModeBody(JourneyState)))
    /\ UNCHANGED <<now, logoVars, pureVars, effectVars, menuVars>>

\* onClick of the close control, which is rendered while active.
CloseControl ==
    /\ homeMounted /\ showJourneyMode
    /\ isActive
    /\ CountJourneyInput
    /\ SetJourney(JourneyEffects(JourneyState, ToggleJourneyModeBody(JourneyState)))
    /\ UNCHANGED <<now, logoVars, pureVars, effectVars, menuVars>>

\* handleKeyDown for the keys it handles.
JourneyKeys == {"Escape", "ArrowRight", "ArrowLeft"}

HandleKeyDown(key, lookup) ==
    /\ homeMounted /\ showJourneyMode
    /\ isActive /\ ~isTransitioning
    /\ CountJourneyInput
    /\ LET st == JourneyState
           after ==
             IF key = "Escape" THEN ToggleJourneyModeBody(st)
             ELSE IF key = "ArrowRight"
             THEN IF currentScene < 5
                  THEN TransitionToScene(st, currentScene + 1, isTransitioning,
                                         currentScene, isActive, keyHandlerIntro, lookup)
                  ELSE st
             ELSE IF currentScene > 1
                  THEN TransitionToScene(st, currentScene - 1, isTransitioning,
                                         currentScene, isActive, keyHandlerIntro, lookup)
                  ELSE st
       IN  SetJourney(JourneyEffects(st, after))
    /\ UNCHANGED <<now, logoVars, pureVars, effectVars, menuVars>>

\* onClick of the focus point of scene realIndex; the points are rendered
\* after the intro, outside transitions, for scenes whose target is found.
FocusPointClick(realIndex, lookup) ==
    /\ homeMounted /\ showJourneyMode
    /\ isActive /\ isIntroComplete /\ ~isTransitioning
    /\ lookup # NoElement
    /\ CountJourneyInput
    /\ LET st == JourneyState
       IN  SetJourney(JourneyEffects(st,
              TransitionToScene(st, realIndex, isTransitioning, currentScene,
                                isActive, isIntroComplete, lookup)))
    /\ UNCHANGED <<now, logoVars, pureVars, effectVars, menuVars>>

\* A timeout of the journey fires.  No timeout is ever cleared, so they
\* also fire after the unmount: the state setters of an unmounted component
\* do nothing and nothing re-renders, but the timeouts the callback sets are
\* still set.
JourneyTimeout(t, lookup) ==
    /\ t \in journeyTimers
    /\ t.fire <= now
    /\ LET st == [JourneyState EXCEPT !.timers = @ \ {t}]
           after ==
             CASE t.kind = "zoom"  -> [st EXCEPT !.cam = [x |-> 0, y |-> 0, zoom |-> 12]]
               [] t.kind = "ready" -> [st EXCEPT !.cam = [x |-> 0, y |-> 0, zoom |-> 10],
                                                 !.intro = TRUE]
               [] t.kind = "begin" -> TransitionToScene(st, 1, FALSE, t.cCur, t.cAct, t.cIntro, lookup)
               [] t.kind = "done"  ->
                    [st EXCEPT !.trans = FALSE,
                               !.timers = IF t.index < 5 /\ t.cAct /\ t.cIntro
                                          THEN @ \cup {[t EXCEPT !.kind = "auto",
                                                         !.fire = now + journeyScenes[t.index].duration]}
                                          ELSE @]
               [] t.kind = "auto"  -> TransitionToScene(st, t.index + 1, FALSE, t.cCur, t.cAct, t.cIntro, lookup)
       IN  IF homeMounted
           THEN SetJourney(JourneyEffects(JourneyState, after))
           ELSE SetJourney([JourneyState EXCEPT !.timers = after.timers])
    /\ UNCHANGED <<now, logoVars, pureVars, effectVars, menuVars, journeyInputs>>

KeyPressed ==
    \E key \in JourneyKeys : \E lookup \in TargetLookups(1) : HandleKeyDown(key, lookup)

FocusPointClicked ==
    \E i \in 1..5 : \E lookup \in TargetLookups(i) : FocusPointClick(i, lookup)

JourneyTimeoutFires ==
    \E t \in journeyTimers : \E lookup \in TargetLookups(1) : JourneyTimeout(t, lookup)

\* Time passes by one slice of the overlay specification.
JourneyTick ==
    /\ now < MaxJourneyTime
    /\ \A t \in journeyTimers : t.fire > now
    /\ now' = now + JourneyTickMs
    /\ UNCHANGED <<logoVars, menuVars, journeyVars, effectVars, pureVars>>

----------------------------------------------------------------------------
(* The canvas renderers, the cursor and the VR button *)

\* The frame callbacks in pending run in the order they were requested.
\* animate of AudioReactiveGrid and of DigitalPortal return at once when
\* their canvasRef.current is null, that is, once unmounted.
RECURSIVE RunCallbacks(_, _)
RunCallbacks(r, pending) ==
    IF pending = {}
    THEN r
    ELSE LET q == CHOOSE x \in pending : \A y \in pending : x.id <= y.id
             after ==
               CASE q.cb = "ParticlesCanvas.animate" -> ParticlesAnimate(r)
                 [] q.cb = "AudioReactiveGrid.simulateAudio" -> SimulateAudio(r)
                 [] q.cb = "AudioReactiveGrid.animate" ->
                        IF homeMounted THEN GridAnimate(r) ELSE r
                 [] q.cb = "DigitalPortal.animate" ->
                        IF homeMounted THEN PortalAnimate(r) ELSE r
                 [] q.cb = "InteractiveLogoAnimation.animateEffects" -> AnimateEffects(r)
         IN  RunCallbacks(after, pending \ {q})

\* The browser runs the requested frame callbacks; setAudioData of
\* simulateAudio then re-renders AudioReactiveGrid, whose animation-loop
\* effect re-runs.
AnimationFrame ==
    /\ rafQueue # {}
    /\ rafSeq < MaxRafIds
    /\ LET ran == RunCallbacks([RafState EXCEPT !.queue = {}], rafQueue)
           audioRan == \E q \in rafQueue : q.cb = "AudioReactiveGrid.simulateAudio"
       IN  SetRaf(IF homeMounted /\ audioRan THEN GridLoopEffect(ran, glReady) ELSE ran)
    /\ UNCHANGED <<now, logoVars, pureVars, menuVars, journeyVars,
                   listeners, glObjects, glReady, isDragging, dragStartedIn, vrVars>>

\* The pointer moves (or scrollProgress changes): the animation-loop
\* effects of the grid and of the particle field re-run, and so does the
\* drag effect of the portal (dependencies [isDragging, mousePosition,
\* portalSize]), which removes its listener and adds it again.
PointerMoved ==
    /\ homeMounted
    /\ rafSeq < MaxRafIds
    /\ SetRaf(ParticlesLoopEffect(GridLoopEffect(RafState, glReady)))
    /\ listeners' = (IF isDragging
                     THEN (listeners \ {DragListener}) \cup {DragListener}
                     ELSE listeners)
    /\ UNCHANGED <<now, logoVars, pureVars, menuVars, journeyVars,
                   glObjects, glReady, isDragging, dragStartedIn, vrVars>>

\* A dependency of the logo's animation effect changes (interpolatedScroll,
\* animationStage, canExpand, ...) and the effect re-runs.
LogoEffectRerun ==
    /\ homeMounted
    /\ rafSeq < MaxRafIds
    /\ SetRaf(LogoAnimationEffect(RafState))
    /\ UNCHANGED <<now, logoVars, pureVars, menuVars, journeyVars,
                   listeners, glObjects, glReady, isDragging, dragStartedIn, vrVars>>

\* onMouseDown of the portal, which can be hit once it is open.
StartDragIn(region) ==
    /\ homeMounted
    /\ isPortalOpen /\ ~isDragging
    /\ isDragging' = TRUE
    /\ dragStartedIn' = region
    /\ listeners' = listeners \cup {DragListener}
    /\ UNCHANGED <<now, logoVars, pureVars, menuVars, journeyVars,
                   rafVars, glObjects, glReady, vrVars>>

\* A mouse-down on the header or on the canvas of the portal: both are
\* children of the div that carries onMouseDown, and the event bubbles.
StartDrag == \E region \in PortalRegions : StartDragIn(region)

\* onMouseUp or onMouseLeave of the portal.
StopDrag ==
    /\ homeMounted
    /\ isDragging
    /\ isDragging' = FALSE
    /\ listeners' = listeners \ {DragListener}
    /\ UNCHANGED <<now, logoVars, pureVars, menuVars, journeyVars,
                   rafVars, glObjects, glReady, dragStartedIn, vrVars>>

\* toggleVRMode, the onClick of the VR button, which is rendered when
\* device orientation is supported.  requestOrientationPermission runs up to
\* its await; the vr-mode-toggle event is dispatched with !isVRMode at once,
\* and the handler of EnhancedAudioReactiveGrid stores that.  Its
\* head-tracking effect returns at once, because its canvasRef is attached
\* to no element; the device-orientation effect follows its isVRMode.
PressVRButton ==
    /\ homeMounted
    /\ vrPermission # "not-supported"
    /\ vrPending < MaxPendingPermissions
    /\ IF ~vrButtonMode
       THEN IF vrPermission = "need-permission"
            THEN /\ vrPending' = vrPending + 1
                 /\ UNCHANGED vrButtonMode
            ELSE /\ vrButtonMode' = TRUE
                 /\ UNCHANGED vrPending
       ELSE /\ vrButtonMode' = FALSE
            /\ UNCHANGED vrPending
    /\ gridVRMode' = ~vrButtonMode
    /\ listeners' = (IF ~vrButtonMode
                     THEN listeners \cup {OrientationListener}
                     ELSE listeners \ {OrientationListener})
    /\ UNCHANGED <<now, logoVars, pureVars, menuVars, journeyVars,
                   rafVars, glObjects, glReady, isDragging, dragStartedIn, vrPermission>>

\* What the promise of DeviceOrientationEvent.requestPermission() settles to.
PermissionResults == {"granted", "denied", "rejected"}

\* The rest of requestOrientationPermission once the promise has settled;
\* the state setters of an unmounted component do nothing.
PermissionSettles(result) ==
    /\ vrPending > 0
    /\ vrPending' = vrPending - 1
    /\ IF homeMounted
       THEN /\ vrPermission' = (IF result = "rejected" THEN "denied" ELSE result)
            /\ vrButtonMode' = (IF result = "granted" THEN TRUE ELSE vrButtonMode)
       ELSE UNCHANGED <<vrPermission, vrButtonMode>>
    /\ UNCHANGED <<now, logoVars, pureVars, menuVars, journeyVars,
                   rafVars, listeners, glObjects, glReady, isDragging, dragStartedIn, gridVRMode>>

PermissionSettled == \E result \in PermissionResults : PermissionSettles(result)

\* The clean-ups of the animation effects at unmount, each cancelling the
\* id its component kept.
UnmountRaf(r) ==
    LET a == CancelAnimationFrame(r, r.logo)
        b == CancelAnimationFrame(a, a.audio)
        c == IF glReady THEN CancelAnimationFrame(b, b.grid) ELSE b
        d == CancelAnimationFrame(c, c.particles)
    IN  IF isPortalOpen THEN CancelAnimationFrame(d, d.portal) ELSE d

\* The clean-ups of the listener effects at unmount.
UnmountListeners(L) ==
    LET drag == IF isDragging THEN {DragListener} ELSE {}
        orientation == IF gridVRMode THEN {OrientationListener} ELSE {}
    IN  CustomCursorCleanup(((L \ RendererMountListeners) \ drag) \ orientation)

\* Home unmounts (the router leaves the page) and React runs the clean-up
\* of every effect.  The clean-up of the journey's intro effect closed over
\* the isActive of the latest render, because the effect re-runs whenever
\* isActive changes; the resize and keydown listeners are removed and no
\* timeout is cleared.
UnmountHome ==
    /\ homeMounted
    /\ homeMounted' = FALSE
    /\ bodyOverflow' = (IF showJourneyMode /\ ~isActive THEN "" ELSE bodyOverflow)
    /\ UNCHANGED <<now, logoVars, pureVars, isPortalOpen, portalToggledFrom, showJourneyMode,
                   isActive, currentScene, isTransitioning, isIntroComplete,
                   cameraPosition, journeyTimers, journeyInputs, keyHandlerIntro,
                   sceneEnteredAt, lastTransition>>
    /\ SetRaf(UnmountRaf(RafState))
    /\ listeners' = UnmountListeners(listeners)
    /\ glObjects' = GlCleanup(glObjects, glReady)
    /\ UNCHANGED <<glReady, isDragging, dragStartedIn, vrVars>>

----------------------------------------------------------------------------
(* ParticlesCanvas.animate: the step of one particle *)

\* Lengths of the particle field are fixed-point numbers in tenths of a
\* pixel; scrollProgress is in units of 1/10000 as above.
PixelUnit == 10

\* mouseRadius of animate, 100 px
mouseRadius == 100 * PixelUnit

\* floor of the square root
Isqrt(n) == CHOOSE k \in 0..mouseRadius : k * k <= n /\ n < (k + 1) * (k + 1)

\* The step of animate without the test against the lower bounds.
AnimateParticle_NoLowerWrap(p, mouse, progress) ==
    LET dx == mouse[1] - p.x
        dy == mouse[2] - p.y
        d2 == dx * dx + dy * dy
        near == d2 < mouseRadius * mouseRadius
        influence == IF near THEN Unit - (Isqrt(d2) * Unit) \div mouseRadius ELSE 0
        x1 == IF near THEN p.x - MulDiv(dx * influence, 5, 100 * Unit) ELSE p.x
        y1 == IF near THEN p.y - MulDiv(dy * influence, 5, 100 * Unit) ELSE p.y
        y2 == y1 + (progress * 5 * PixelUnit) \div (10 * Unit)
        x3 == x1 + p.speedX
        y3 == y2 + p.speedY
    IN  [p EXCEPT !.x = IF x3 > CanvasWidth THEN 0 ELSE x3,
                  !.y = IF y3 > CanvasHeight THEN 0 ELSE y3]

\* The body of particlesRef.current.forEach in animate for the particle p,
\* the pointer at mouse and the scroll ratio progress: repulsion within
\* mouseRadius (mouseStrength 1, factor 0.05), the scroll bias
\* scrollProgress * 5 * 0.1, the drift, then the four boundary tests in the
\* order of the code.
AnimateParticle(p, mouse, progress) ==
    LET dx == mouse[1] - p.x
        dy == mouse[2] - p.y
        d2 == dx * dx + dy * dy
        near == d2 < mouseRadius * mouseRadius
        influence == IF near THEN Unit - (Isqrt(d2) * Unit) \div mouseRadius ELSE 0
        x1 == IF near THEN p.x - MulDiv(dx * influence, 5, 100 * Unit) ELSE p.x
        y1 == IF near THEN p.y - MulDiv(dy * influence, 5, 100 * Unit) ELSE p.y
        y2 == y1 + (progress * 5 * PixelUnit) \div (10 * Unit)
        x3 == x1 + p.speedX
        y3 == y2 + p.speedY
        x4 == IF x3 < 0 THEN CanvasWidth ELSE x3
        y4 == IF y3 < 0 THEN CanvasHeight ELSE y3
    IN  [p EXCEPT !.x = IF x4 > CanvasWidth THEN 0 ELSE x4,
                  !.y = IF y4 > CanvasHeight THEN 0 ELSE y4]

\* One animation frame of the particle field.
ParticleFrame(mouse, progress) ==
    /\ particleFrames < MaxParticleFrames
    /\ particle' = AnimateParticle(particle, mouse, progress)
    /\ particleFrames' = particleFrames + 1
    /\ UNCHANGED <<now, logoVars, menuVars, journeyVars, effectVars,
                   squareVars, styleVars, glowVars, carouselVars>>

ParticleFrameRuns ==
    \E mouse \in ParticlePointers : \E progress \in {0, Unit \div 2, Unit} :
        ParticleFrame(mouse, progress)

\* A particle as the initialisation effect creates it: Math.random() is in
\* [0, 1), so x is in [0, width), y in [0, height) and the speeds in
\* [-0.25, 0.25).
InitParticle ==
    /\ particle \in [x : ParticleStartsX, y : ParticleStartsY,
                     speedX : ParticleSpeeds, speedY : ParticleSpeeds]
    /\ particleFrames = 0

----------------------------------------------------------------------------
(* InteractiveLogoAnimation: the transform of the square *)

\* Rotations are in thousandths of a degree.  1000 * sin(p * pi) for the
\* fall progress p, and 1000 * sin(t / 200) for the time t in ms.
SinOfFallProgress == (0 :> 0) @@ (2500 :> 707) @@ (5000 :> 1000) @@ (9500 :> 156)

SinOfTime == (0 :> 0) @@ (200 :> 841) @@ (400 :> 909) @@ (1000 :> -959)

\* What calculateStages leaves in style.transform: rotate(..) translateZ(0)
\* during Fall, translateY(..) translateZ(0) during Float, translateZ(0)
\* otherwise.  During Fall the angle is 8 * sin(displayFallProgress * pi),
\* negated when scrolling up; the float offset depends on the time only.
CalculateStagesTransform(in) ==
    CASE in.stage = 4 ->
            [kind |-> "rotate",
             value |-> in.direction * 8 * SinOfFallProgress[in.fallProgress]]
      [] in.stage = 3 -> [kind |-> "translateY", value |-> in.time]
      [] OTHER -> [kind |-> "translateZ", value |-> 0]

\* parseFloat(currentTransform.replace(/[^0-9.-]+/g, '')) for the transform
\* 'rotate(<v>deg) translateZ(0)': the digits of v followed by the 0 of
\* translateZ(0).  When v prints without a decimal point the 0 is one more
\* integer digit; otherwise it is a trailing decimal.
ParseRotation(v) ==
    IF v % 1000 = 0 THEN 10 * v ELSE v

\* What an animateEffects frame writes to style.transform, given what the
\* element holds.
AnimateEffectsTransform(in, current) ==
    IF in.stage = 3
    THEN [kind |-> "translateY", value |-> in.time]
    ELSE IF in.stage = 4 /\ current.kind = "rotate"
    THEN [kind |-> "rotate",
          value |-> ParseRotation(current.value) + MulDiv(SinOfTime[in.time], 15, 100)]
    ELSE current

\* An animateEffects frame of the square.
AnimateEffectsFrame ==
    /\ squareFrames < MaxSquareFrames
    /\ squareTransform' = AnimateEffectsTransform(squareInputs, squareTransform)
    /\ squareFrames' = squareFrames + 1
    /\ frameResults' = frameResults \cup {squareTransform'}
    /\ UNCHANGED <<now, logoVars, menuVars, journeyVars, effectVars,
                   particleVars, styleVars, glowVars, carouselVars, squareInputs>>

\* The animation effect re-runs calculateStages with the same inputs.
CalculateStagesRuns ==
    /\ squareFrames < MaxSquareFrames
    /\ squareTransform' = CalculateStagesTransform(squareInputs)
    /\ UNCHANGED <<now, logoVars, menuVars, journeyVars, effectVars,
                   particleVars, styleVars, glowVars, carouselVars, squareInputs,
                   squareFrames, frameResults>>

\* The square after calculateStages has run for some stage, fall progress,
\* scroll direction and time.
InitSquare ==
    /\ squareInputs \in [stage : 0..6, fallProgress : DOMAIN SinOfFallProgress,
                         direction : {-1, 1}, time : DOMAIN SinOfTime]
    /\ squareTransform = CalculateStagesTransform(squareInputs)
    /\ squareFrames = 0
    /\ frameResults = {}

----------------------------------------------------------------------------
(* InteractiveLogoAnimation: the styles calculateStages writes to the square *)

\* interpolatedScroll values a run of calculateStages may see.
StyleScrollSamples ==
    {0, 3000, 4000, 4500, 4750, 5000, 5250, 5500, 5750, 6000, 6250, 6500, 7000}

\* easeOutQuint: 1 - (1 - x)^5
easeOutQuint(x) ==
    LET u  == Unit - x
        u2 == MulDiv(u, u, Unit)
        u4 == MulDiv(u2, u2, Unit)
    IN  Unit - MulDiv(u4, u, Unit)

\* Colour channels are in units of 1/10000, like the ratios.
\* 'rgb(220, 38, 38)', the colour of the Release, Float and Fall branches.
red600 == <<220 * Unit, 38 * Unit, 38 * Unit>>

\* The red channel taken as rising with the expansion.
ExpansionRed_Rising(eased) ==
    Max(0, 255 * eased)

\* red = Math.max(0, 255 * (1 - easedExpansionProgress))
ExpansionRed(eased) ==
    Max(0, 255 * (Unit - eased))

\* The style writes of one run of calculateStages.  in.stage is the
\* animationStage of the render the run belongs to, which is the stage the
\* run before set; old is what the square holds.  A branch leaves what it
\* does not write.
CalculateStagesStyle(in, old) ==
    LET expandProgress ==
            IF in.canExpand
            THEN normalizeProgress(in.scroll, ANIMATION_RANGES.fallToExpand[1],
                                   ANIMATION_RANGES.fallToExpand[2])
            ELSE 0
        finalProgress ==
            IF in.canExpand
            THEN normalizeProgress(in.scroll, ANIMATION_RANGES.expandToFinal[1],
                                   ANIMATION_RANGES.expandToFinal[2])
            ELSE 0
    IN  IF in.stage >= 5 /\ in.canExpand
        THEN LET expansionProgress == IF in.stage = 5 THEN expandProgress ELSE finalProgress
                 easedExpansionProgress == easeOutQuint(expansionProgress)
             IN  [old EXCEPT !.branch = "expansion",
                             !.expansionProgress = expansionProgress,
                             !.eased = easedExpansionProgress,
                             !.color = <<ExpansionRed(easedExpansionProgress), 0, 0>>]
        ELSE IF in.stage = 4
        THEN [old EXCEPT !.branch = "fall",
                         !.fallProgress = DisplayFallProgress(in.scroll, in.canExpand),
                         !.color = red600]
        ELSE IF in.stage \in {2, 3}
        THEN [old EXCEPT !.branch = "float", !.color = red600]
        ELSE [old EXCEPT !.branch = "none"]

\* One run of the effect that holds calculateStages, in a render with
\* interpolatedScroll = scroll and canExpand = ce: it sets animationStage,
\* which the next run sees, and writes the styles for the animationStage of
\* its own render.  canExpand is cleared only by the fall-timer effect of a
\* render below the Float range.
CalculateStagesPaints(scroll, ce) ==
    /\ (paintInputs.canExpand /\ ~ce) => paintInputs.scroll < ANIMATION_RANGES.floatToFall[1]
    /\ paintInputs' = [stage |-> paintStage, scroll |-> scroll, canExpand |-> ce]
    /\ paintStage' = CalculateStage(scroll, ce)
    /\ squareStyle' = CalculateStagesStyle(paintInputs', squareStyle)
    /\ previousPaint' = squareStyle
    /\ UNCHANGED <<now, logoVars, menuVars, journeyVars, effectVars,
                   particleVars, squareVars, glowVars, carouselVars>>

CalculateStagesPainted ==
    \E scroll \in StyleScrollSamples : \E ce \in BOOLEAN :
        CalculateStagesPaints(scroll, ce)

\* The square as it is rendered at mount: class bg-red-600, no run yet.
InitStyle ==
    /\ paintInputs = [stage |-> 0, scroll |-> 0, canExpand |-> FALSE]
    /\ paintStage = 0
    /\ squareStyle = [branch |-> "none", expansionProgress |-> 0, eased |-> 0,
                      fallProgress |-> 0, color |-> red600]
    /\ previousPaint = squareStyle

----------------------------------------------------------------------------
(* GlowingParticlesEffect: the glow trail *)

\* A new particle has life 1; a decay tick subtracts 0.02 (hundredths).
fullLife == 100

lifeDecay == 2

\* setInterval(..., 50)
decayInterval == 50

\* The time slice of the glow specification: half an interval.
GlowTickMs == decayInterval \div 2

\* The decay effect (dependencies [particles]) after particles has been set
\* to ps: the clean-up clears the interval of the run before, and a new
\* interval is set unless ps is empty.
DecayEffect(ps, interval) ==
    IF Len(ps) = 0 THEN Null ELSE now + decayInterval

\* The map and filter of a decay tick.
DecayParticles(ps) ==
    SelectSeq([i \in 1..Len(ps) |-> ps[i] - lifeDecay], LAMBDA life : life > 0)

\* The effect on [mousePosition]: a pointer position inside the container
\* adds count particles of life 1, one outside adds none.
GlowPointerMove(inside, count) ==
    /\ inside => Len(glowParticles) + count <= MaxGlowParticles
    /\ IF inside
       THEN /\ glowParticles' = glowParticles \o [i \in 1..count |-> fullLife]
            /\ glowInterval' = DecayEffect(glowParticles', glowInterval)
            /\ glowSince' = IF Len(glowParticles) = 0 THEN now ELSE glowSince
       ELSE UNCHANGED glowVars
    /\ UNCHANGED <<now, logoVars, menuVars, journeyVars, effectVars,
                   particleVars, squareVars, styleVars, carouselVars>>

GlowPointerMoved ==
    \E inside \in BOOLEAN : \E count \in 1..3 : GlowPointerMove(inside, count)

\* The callback of the decay interval.
GlowDecayTick ==
    /\ glowInterval # Null /\ glowInterval <= now
    /\ glowParticles' = DecayParticles(glowParticles)
    /\ glowInterval' = DecayEffect(glowParticles', glowInterval)
    /\ glowSince' = now
    /\ UNCHANGED <<now, logoVars, menuVars, journeyVars, effectVars,
                   particleVars, squareVars, styleVars, carouselVars>>

\* Time passes by one slice; a due interval fires before the clock moves on.
GlowTick ==
    /\ now < MaxGlowTime
    /\ glowInterval # Null => glowInterval > now
    /\ now' = now + GlowTickMs
    /\ UNCHANGED <<logoVars, menuVars, journeyVars, effectVars, pureVars>>

\* No particle yet.
IdleGlow ==
    /\ glowParticles = <<>>
    /\ glowInterval = Null
    /\ glowSince = 0

\* The trail at some moment: empty, or one particle left with any life a
\* particle can have, and the interval set in the render that produced it.
InitGlow ==
    /\ glowParticles \in {<<>>} \cup {<<life>> : life \in {lifeDecay, 2 * lifeDecay, fullLife}}
    /\ glowInterval = DecayEffect(glowParticles, Null)
    /\ glowSince = 0

----------------------------------------------------------------------------
(* HorizontalScrollCards: the horizontal carousel *)

\* Positions are whole pixels and velocities whole px/s, rounded toward
\* zero.  The sizes are fixed: cards.length, containerRef.clientWidth and
\* window.innerWidth.
cardsLength == 3

containerWidth == 1000

innerWidth == 1000

cardWidth == 360

extraLeftShift == 150

\* The threshold of the effect that updates isAtStart and isAtEnd.
endThreshold == 10

leftPadding == (innerWidth * 4) \div 10

getMaxScroll ==
    LET lastCardCenteredPosition == leftPadding + (cardsLength - 1) * cardWidth
        centeringOffset == (containerWidth - cardWidth) \div 2
    IN  Max(0, lastCardCenteredPosition - centeringOffset + extraLeftShift)

\* Math.floor((scrollX + containerWidth / 2) / 350)
getCurrentCardIndex == (scrollX + containerWidth \div 2) \div 350

\* The clamp without its upper bound.
ClampScroll_NoUpperBound(x) ==
    Max(0, x)

\* Math.max(0, Math.min(getMaxScroll(), x))
ClampScroll(x) ==
    Max(0, Min(getMaxScroll, x))

\* isAtStart.current and isAtEnd.current as the effect on [scrollX] leaves
\* them for a rendered scrollX.
isAtStart == scrollX <= endThreshold

isAtEnd == Abs(scrollX - getMaxScroll) <= endThreshold

\* setScrollX(x) and the re-render: the effect on [scrollX] sets scrollX to
\* maxScroll when it is within the threshold of it.
SetScrollX(x) ==
    scrollX' = IF Abs(x - getMaxScroll) <= endThreshold THEN getMaxScroll ELSE x

\* velocityX.current = (newScrollX - lastScrollX.current) / Math.max(1, dt) * 1000
Velocity(newScrollX, last, dt) ==
    MulDiv(newScrollX - last, 1000, Max(1, dt))

\* The cancel of a running momentum animation.
CancelMomentum ==
    /\ momentumPending' = (IF momentumRef = Null THEN momentumPending
                           ELSE momentumPending \ {momentumRef})
    /\ momentumRef' = Null

\* Every event and frame of the carousel counts toward the bound.
CarouselStep ==
    /\ carouselSteps < MaxCarouselSteps
    /\ carouselSteps' = carouselSteps + 1

CarouselRest ==
    UNCHANGED <<now, logoVars, menuVars, journeyVars, effectVars,
                particleVars, squareVars, styleVars, glowVars>>

\* Elapsed times since lastScrollTime, wheel deltas and pointer positions
\* (pageX less the container's offsetLeft).
CarouselElapsed == {0, 16}

WheelDeltas == {-300, 120, 2000}

PointerXs == {100, 900}

\* Whether handleWheel or handleGlobalWheel scrolls for a wheel delta.
WheelScrolls(delta) ==
    \/ delta > 0 /\ ~isAtEnd
    \/ delta < 0 /\ ~isAtStart

\* A wheel event.  Over the container handleWheel runs first and
\* handleGlobalWheel, which finds no time elapsed, after it; elsewhere only
\* handleGlobalWheel runs.  Both read the scrollX of the same render.
WheelEvent(delta, dt, over) ==
    LET newScrollX == ClampScroll(scrollX + delta)
        local  == over /\ isSectionActive /\ WheelScrolls(delta)
        global == isSectionActive /\ ~allowScroll /\ WheelScrolls(delta)
    IN  /\ CarouselStep
        /\ local \/ global
        /\ requestedScrollX' = scrollX + delta
        /\ SetScrollX(newScrollX)
        /\ velocityX' = IF local /\ global THEN Velocity(newScrollX, scrollX, 0)
                        ELSE Velocity(newScrollX, lastScrollX, dt)
        /\ lastScrollX' = scrollX
        /\ CancelMomentum
        /\ UNCHANGED <<cardDragging, startX, scrollLeft, isSectionActive, allowScroll>>
        /\ CarouselRest

WheelMoved ==
    \E delta \in WheelDeltas : \E dt \in CarouselElapsed : \E over \in BOOLEAN :
        WheelEvent(delta, dt, over)

\* handleMouseDown and handleTouchStart with one touch.
DragStart(x) ==
    /\ CarouselStep
    /\ cardDragging' = TRUE
    /\ startX' = x
    /\ scrollLeft' = scrollX
    /\ CancelMomentum
    /\ UNCHANGED <<scrollX, requestedScrollX, velocityX, lastScrollX,
                   isSectionActive, allowScroll>>
    /\ CarouselRest

DragStarted == \E x \in PointerXs : DragStart(x)

\* handleMouseMove (touch = FALSE) and handleTouchMove (touch = TRUE) while
\* dragging; handleTouchMove keeps newScrollX as lastScrollX.
DragMove(x, dt, touch) ==
    LET walk == (x - startX) * 2
        newScrollX == ClampScroll(scrollLeft - walk)
    IN  /\ CarouselStep
        /\ cardDragging
        /\ requestedScrollX' = scrollLeft - walk
        /\ SetScrollX(newScrollX)
        /\ velocityX' = Velocity(newScrollX, lastScrollX, dt)
        /\ lastScrollX' = IF touch THEN newScrollX ELSE scrollX
        /\ UNCHANGED <<cardDragging, startX, scrollLeft, momentumPending,
                       momentumRef, isSectionActive, allowScroll>>
        /\ CarouselRest

DragMoved ==
    \E x \in PointerXs : \E dt \in CarouselElapsed : \E touch \in BOOLEAN :
        DragMove(x, dt, touch)

\* startMomentumScroll in a render with the current scrollX: near the end it
\* snaps to the end, otherwise it requests animateMomentum, whose closure
\* holds that scrollX.
StartMomentumScroll ==
    IF Abs(velocityX) * 2 > 1
    THEN IF Abs(scrollX - getMaxScroll) < 10
         THEN /\ requestedScrollX' = getMaxScroll
              /\ SetScrollX(getMaxScroll)
              /\ UNCHANGED <<momentumPending, momentumRef>>
         ELSE /\ momentumPending' = momentumPending \cup {scrollX}
              /\ momentumRef' = scrollX
              /\ UNCHANGED <<scrollX, requestedScrollX>>
    ELSE UNCHANGED <<scrollX, requestedScrollX, momentumPending, momentumRef>>

\* handleMouseUp and handleTouchEnd; handleMouseLeave while dragging.
DragEnd ==
    /\ CarouselStep
    /\ cardDragging' = FALSE
    /\ StartMomentumScroll
    /\ UNCHANGED <<startX, scrollLeft, velocityX, lastScrollX,
                   isSectionActive, allowScroll>>
    /\ CarouselRest

\* animateMomentum, the frame callback whose closure holds scrollX = held.
AnimateMomentum(held) ==
    LET velocity == MulDiv(velocityX, 95, 100)
        delta == MulDiv(velocity, 1, 60)
        newScrollX == ClampScroll(held + delta)
        atBound == newScrollX = 0 \/ newScrollX >= getMaxScroll
        others == momentumPending \ {held}
    IN  /\ CarouselStep
        /\ held \in momentumPending
        /\ IF Abs(velocity) * 2 < 1
           THEN /\ velocityX' = velocity
                /\ momentumPending' = (IF momentumRef = Null THEN others
                                       ELSE others \ {momentumRef})
                /\ momentumRef' = Null
                /\ UNCHANGED <<scrollX, requestedScrollX>>
           ELSE /\ velocityX' = IF atBound THEN 0 ELSE velocity
                /\ requestedScrollX' = held + delta
                /\ IF atBound /\ Abs(newScrollX - getMaxScroll) < 5
                   THEN /\ SetScrollX(getMaxScroll)
                        /\ momentumPending' = (IF momentumRef = Null THEN others
                                               ELSE others \ {momentumRef})
                        /\ momentumRef' = Null
                   ELSE /\ SetScrollX(newScrollX)
                        /\ momentumPending' = others \cup {held}
                        /\ momentumRef' = held
        /\ UNCHANGED <<cardDragging, startX, scrollLeft, lastScrollX,
                       isSectionActive, allowScroll>>
        /\ CarouselRest

MomentumFrame == \E held \in momentumPending : AnimateMomentum(held)

\* scrollToCard(index)
ScrollToCard(index) ==
    LET rawPosition == leftPadding + index * cardWidth
        centeringOffset == (containerWidth - cardWidth) \div 2
        targetPosition == rawPosition - centeringOffset
    IN  /\ requestedScrollX' = targetPosition
        /\ SetScrollX(ClampScroll(targetPosition))

\* handleKeyDown for ArrowLeft and ArrowRight.
ArrowKey(key) ==
    /\ CarouselStep
    /\ isSectionActive
    /\ IF key = "ArrowLeft"
       THEN getCurrentCardIndex > 0 /\ ScrollToCard(getCurrentCardIndex - 1)
       ELSE getCurrentCardIndex < cardsLength - 1 /\ ScrollToCard(getCurrentCardIndex + 1)
    /\ UNCHANGED <<cardDragging, startX, scrollLeft, velocityX, lastScrollX,
                   momentumPending, momentumRef, isSectionActive, allowScroll>>
    /\ CarouselRest

ArrowKeyPressed == \E key \in {"ArrowLeft", "ArrowRight"} : ArrowKey(key)

\* onClick of the indicator of a card.
IndicatorClick(index) ==
    /\ CarouselStep
    /\ ScrollToCard(index)
    /\ UNCHANGED <<cardDragging, startX, scrollLeft, velocityX, lastScrollX,
                   momentumPending, momentumRef, isSectionActive, allowScroll>>
    /\ CarouselRest

IndicatorClicked == \E index \in 0..(cardsLength - 1) : IndicatorClick(index)

\* handleResize with the sizes unchanged, and checkSectionVisibility, which
\* the same event runs and which may find the section active or not.
Resize(active) ==
    /\ CarouselStep
    /\ requestedScrollX' = scrollX
    /\ SetScrollX(Min(scrollX, getMaxScroll))
    /\ isSectionActive' = active
    /\ UNCHANGED <<cardDragging, startX, scrollLeft, velocityX, lastScrollX,
                   momentumPending, momentumRef, allowScroll>>
    /\ CarouselRest

Resized == \E active \in BOOLEAN : Resize(active)

\* onClick of the controls of the scroll barrier, rendered at the end.
ContinueScrolling ==
    /\ CarouselStep
    /\ isAtEnd /\ ~allowScroll
    /\ allowScroll' = TRUE
    /\ UNCHANGED <<scrollX, requestedScrollX, cardDragging, startX, scrollLeft,
                   velocityX, lastScrollX, momentumPending, momentumRef,
                   isSectionActive>>
    /\ CarouselRest

\* The carousel after mount, with the section in view.
InitCarousel ==
    /\ scrollX = 0
    /\ requestedScrollX = 0
    /\ cardDragging = FALSE
    /\ startX = 0
    /\ scrollLeft = 0
    /\ velocityX = 0
    /\ lastScrollX = 0
    /\ momentumPending = {}
    /\ momentumRef = Null
    /\ isSectionActive = TRUE
    /\ allowScroll = FALSE
    /\ carouselSteps = 0

\* The particle, the square and its style where the specifications that do
\* not follow them leave them.
IdleParticle ==
    /\ particle = [x |-> 0, y |-> 0, speedX |-> 0, speedY |-> 0]
    /\ particleFrames = 0

IdleSquare ==
    /\ squareInputs = [stage |-> 0, fallProgress |-> 0, direction |-> 1, time |-> 0]
    /\ squareTransform = [kind |-> "translateZ", value |-> 0]
    /\ squareFrames = 0
    /\ frameResults = {}

InitPure ==
    /\ IdleParticle
    /\ IdleSquare
    /\ InitStyle
    /\ IdleGlow
    /\ InitCarousel

----------------------------------------------------------------------------
(* Specifications *)

\* The page state after Home has mounted.
InitPage ==
    /\ now = 0
    /\ homeFrameRan = FALSE
    /\ interpFrameRan = FALSE
    /\ scrollY = 0
    /\ previousScrollY = 0
    /\ scale = Unit
    /\ scrollProgress = 0
    /\ scrollChanges = 0
    /\ interpolatedScroll = 0
    /\ interpDelta = 0
    /\ interpRaf = TRUE
    /\ fallStartTime = Null
    /\ canExpand = FALSE
    /\ fallTimers = {}
    /\ animationStage = 0
    /\ previousScrollProgress = 0
    /\ displayFallProgress = 0
    /\ fallWasReset = FALSE
    /\ fallShownAt = Null
    /\ monotoneScroll = TRUE
    /\ isPortalOpen = FALSE
    /\ portalToggledFrom = "none"
    /\ showJourneyMode = FALSE
    /\ isActive = FALSE
    /\ currentScene = 0
    /\ isTransitioning = FALSE
    /\ isIntroComplete = FALSE
    /\ cameraPosition = ResetCamera
    /\ bodyOverflow = ""
    /\ journeyTimers = {}
    /\ journeyInputs = 0
    /\ keyHandlerIntro = FALSE
    /\ sceneEnteredAt = 0
    /\ lastTransition = [n |-> 0, index |-> 0, lookup |-> NoElement]
    /\ homeMounted = TRUE

\* The state the mount effects of the renderers leave: the logo's
\* animation effect, then simulateAudio(), the WebGL initialisation with
\* the given outcome and the animation loop of the grid, then the loop of
\* the particle field, then the re-render that setAudioData asked for.
\* permission is what the mount effect of VRModeButton finds.
InitEffects(outcome, permission) ==
    LET ready == (outcome = "ok")
        r0 == [queue |-> {}, seq |-> 0, particles |-> 0, grid |-> 0,
               audio |-> 0, portal |-> 0, logo |-> 0]
        r == GridLoopEffect(
                 ParticlesAnimate(
                     GridLoopEffect(SimulateAudio(LogoAnimationEffect(r0)), ready)),
                 ready)
    IN  /\ rafQueue = r.queue
        /\ rafSeq = r.seq
        /\ particlesRaf = r.particles
        /\ gridRaf = r.grid
        /\ audioRaf = r.audio
        /\ portalRaf = r.portal
        /\ logoRaf = r.logo
        /\ listeners = CustomCursorEffect(RendererMountListeners)
        /\ glObjects = GlCreated(outcome)
        /\ glReady = ready
        /\ isDragging = FALSE
        /\ dragStartedIn = "none"
        /\ vrButtonMode = FALSE
        /\ vrPermission = permission
        /\ vrPending = 0
        /\ gridVRMode = FALSE

Init == InitPage /\ InitEffects("ok", "granted") /\ InitPure

\* The mount on any device: WebGL may fail part-way, and device
\* orientation may need a permission or be missing.
InitRenderers ==
    /\ InitPage
    /\ \E outcome \in GlOutcomes :
          \E permission \in {"need-permission", "granted", "not-supported"} :
             InitEffects(outcome, permission)
    /\ InitPure

\* The scroll sampler of Home and the logo animation.
Next ==
    \/ AnimateScrollFrame
    \/ SmoothScrollInterpolation
    \/ FallTimeoutFires
    \/ Tick

Spec == Init /\ [][Next]_vars

\* The overlay controllers: the menu's handles and the journey component
\* once the menu has mounted it.
NextOverlays ==
    \/ TogglePortal
    \/ ToggleCinematicJourney
    \/ ActivateJourney
    \/ CloseControl
    \/ KeyPressed
    \/ FocusPointClicked
    \/ JourneyTimeoutFires
    \/ JourneyTick
    \/ UnmountHome

SpecOverlays == Init /\ [][NextOverlays]_vars

\* The canvas renderers, the cursor, the VR button and the frame loop of
\* the logo, from mount to unmount and after.
NextRenderers ==
    \/ AnimationFrame
    \/ PointerMoved
    \/ LogoEffectRerun
    \/ TogglePortal
    \/ StartDrag
    \/ StopDrag
    \/ PressVRButton
    \/ PermissionSettled
    \/ UnmountHome

SpecRenderers == InitRenderers /\ [][NextRenderers]_vars

\* The particle field: any particle the initialisation can create, stepped
\* by animate for any pointer position and scroll ratio.
InitParticles ==
    /\ InitPage
    /\ InitEffects("ok", "granted")
    /\ InitParticle
    /\ IdleSquare
    /\ InitStyle
    /\ IdleGlow
    /\ InitCarousel

NextParticles == ParticleFrameRuns

SpecParticles == InitParticles /\ [][NextParticles]_vars

\* The square of the logo animation: frames and effect re-runs with the
\* inputs held fixed.
InitSquares ==
    /\ InitPage
    /\ InitEffects("ok", "granted")
    /\ IdleParticle
    /\ InitSquare
    /\ InitStyle
    /\ IdleGlow
    /\ InitCarousel

NextSquare ==
    \/ AnimateEffectsFrame
    \/ CalculateStagesRuns

SpecSquare == InitSquares /\ [][NextSquare]_vars

\* The scroll sampler of Home alone, frame by frame.
SpecSampler == Init /\ [][SamplerFrame \/ Tick]_vars

\* The styles of the square: runs of calculateStages for any sequence of
\* renders.
NextStyles == CalculateStagesPainted

SpecStyles == Init /\ [][NextStyles]_vars

\* The glow trail: pointer moves, decay ticks and the clock.
InitGlowing ==
    /\ InitPage
    /\ InitEffects("ok", "granted")
    /\ IdleParticle
    /\ IdleSquare
    /\ InitStyle
    /\ InitGlow
    /\ InitCarousel

NextGlow ==
    \/ GlowPointerMoved
    \/ GlowDecayTick
    \/ GlowTick

SpecGlow == InitGlowing /\ [][NextGlow]_vars

\* The carousel: every event that writes scrollX, in any order.
NextCarousel ==
    \/ WheelMoved
    \/ DragStarted
    \/ DragMoved
    \/ DragEnd
    \/ MomentumFrame
    \/ ArrowKeyPressed
    \/ IndicatorClicked
    \/ Resized
    \/ ContinueScrolling

SpecCarousel == Init /\ [][NextCarousel]_vars

----------------------------------------------------------------------------
(* Claims *)

\* C1: once the fall timer has been reset and started again, the gate stays
\* closed (canExpand false, stage neither Expand nor Final) until 1000 ms
\* have elapsed since that re-entry, whatever timeouts were scheduled before.
C1_GateClosedAfterReset ==
    (fallWasReset /\ fallStartTime # Null /\ now - fallStartTime < minFallDuration)
        => (~canExpand /\ animationStage \notin {5, 6})

\* C2: Expand or Final is reported only when stage Fall was first reported
\* at least 1000 ms earlier.
C2_FallHeldBeforeExpand ==
    animationStage \in {5, 6}
        => (fallShownAt # Null /\ now - fallShownAt >= minFallDuration)

\* C3: while the sampled scroll ratios have only increased, no step lowers
\* the reported stage.
C3_StagesNonDecreasing ==
    [][monotoneScroll' => animationStage' >= animationStage]_vars

\* C4: for a scroll ratio in [0,1] the reported stage is the one whose range
\* contains the ratio, except that from 0.55 on it is Fall while canExpand
\* is false; below 0.55 the stage depends on the ratio alone.
C4_ClassifierRanges ==
    (0 <= interpolatedScroll /\ interpolatedScroll <= Unit) =>
        /\ interpolatedScroll < 1500 => animationStage = 0
        /\ (1500 <= interpolatedScroll /\ interpolatedScroll < 2500) => animationStage = 1
        /\ (2500 <= interpolatedScroll /\ interpolatedScroll < 3500) => animationStage = 2
        /\ (3500 <= interpolatedScroll /\ interpolatedScroll < 4500) => animationStage = 3
        /\ (4500 <= interpolatedScroll /\ interpolatedScroll < 5500) => animationStage = 4
        /\ (5500 <= interpolatedScroll /\ interpolatedScroll < 6500)
              => animationStage = (IF canExpand THEN 5 ELSE 4)
        /\ 6500 <= interpolatedScroll
              => animationStage = (IF canExpand THEN 6 ELSE 4)

\* C4 witness: a ratio in the Expand range is reported as Fall because the
\* gate is closed.
C4_Witness ==
    /\ 5500 <= interpolatedScroll /\ interpolatedScroll < 6500
    /\ ~canExpand
    /\ animationStage = 4

\* C5: while fewer than 1000 ms have elapsed since the fall timer started,
\* a ratio at or beyond the Fall range is reported as Fall and the displayed
\* fall progress is at most 0.95.
C5_FallWhileDwelling ==
    (fallStartTime # Null /\ now - fallStartTime < minFallDuration
        /\ interpolatedScroll >= ANIMATION_RANGES.fallToExpand[1])
        => (animationStage = 4 /\ displayFallProgress <= 9500)

\* C6 as stated: ratio 0.50 with the fall timer started 1200 ms earlier and
\* the gate open is reported as Expand.
C6_ExpandAtHalf ==
    (interpolatedScroll = 5000 /\ canExpand /\ fallStartTime # Null
        /\ now - fallStartTime = 1200)
        => animationStage = 5

\* C6 amended: ratio 0.50 with the fall timer started 1200 ms earlier and
\* the gate open is reported as Fall.
C6_FallAtHalf ==
    (interpolatedScroll = 5000 /\ canExpand /\ fallStartTime # Null
        /\ now - fallStartTime = 1200)
        => animationStage = 4

\* C6 witness: the scenario of the claim is reached.
C6_Witness ==
    /\ interpolatedScroll = 5000 /\ canExpand /\ fallStartTime # Null
    /\ now - fallStartTime = 1200
    /\ animationStage = 4

\* C7: interpolatedScroll is within [0,1] in every reachable state.
C7_InterpolatedInUnitRange ==
    0 <= interpolatedScroll /\ interpolatedScroll <= Unit

\* C8: every call of portalController.toggle() flips isPortalOpen: after a
\* call made while the portal was open it is closed, after a call made while
\* it was closed it is open.
C8_ToggleFlips ==
    /\ portalToggledFrom = "open" => ~isPortalOpen
    /\ portalToggledFrom = "closed" => isPortalOpen

\* C9: a call of cinematicJourneyController.toggle() while the journey is
\* inactive makes it active.
C9_ToggleActivates ==
    [][(ToggleCinematicJourney /\ ~isActive) => isActive']_vars

AutoAdvanceStarts(t) ==
    /\ homeMounted
    /\ t.kind = "auto" /\ t.fire <= now
    /\ t \notin journeyTimers'
    /\ lastTransition'.n = lastTransition.n + 1
    /\ lastTransition'.index = t.index + 1

C20_StaticCameraWithoutTarget ==
    [][(lastTransition'.n = lastTransition.n + 1 /\ lastTransition'.lookup = NoElement)
          => /\ cameraPosition' = journeyScenes[lastTransition'.index].camera
             /\ currentScene' = lastTransition'.index]_vars

\* A scene with a target selector was entered although the selector
\* matched nothing, and the camera has the static offset of that scene.
C20_Witness ==
    /\ lastTransition.n > 0
    /\ lastTransition.lookup = NoElement
    /\ journeyScenes[lastTransition.index].target
    /\ isTransitioning
    /\ currentScene = lastTransition.index
    /\ cameraPosition = journeyScenes[currentScene].camera
    /\ cameraPosition # ResetCamera

\* The frame callbacks and the components of the per-effect renderers.
RendererCallbacks ==
    {"ParticlesCanvas.animate", "DigitalPortal.animate",
     "AudioReactiveGrid.animate", "AudioReactiveGrid.simulateAudio"}

RendererOwners ==
    {"ParticlesCanvas", "DigitalPortal", "AudioReactiveGrid", "EnhancedAudioReactiveGrid"}

\* C13: once the particle field, the portal and the audio grid are
\* unmounted, none of their frame callbacks is requested and none of their
\* event listeners is registered, whatever state they were unmounted in.
C13_RenderersReleaseEverything ==
    ~homeMounted =>
        /\ \A q \in rafQueue : q.cb \notin RendererCallbacks
        /\ \A l \in listeners : l.owner \notin RendererOwners

\* The renderers were unmounted with the portal open and dragged, VR mode
\* on and every loop running, after frames had run.
C13_Witness ==
    /\ ~homeMounted
    /\ isPortalOpen /\ isDragging
    /\ vrButtonMode /\ gridVRMode
    /\ glReady
    /\ portalRaf > 0 /\ gridRaf > portalRaf /\ particlesRaf > portalRaf

\* C14: at most one animateEffects callback chain of the logo animation is
\* requested at any time, and none once the component is unmounted.
C14_SingleLogoLoop ==
    LET loops == {q \in rafQueue : q.cb = "InteractiveLogoAnimation.animateEffects"}
    IN  /\ Cardinality(loops) <= 1
        /\ ~homeMounted => loops = {}

\* C15: once CustomCursor is unmounted, none of the listeners it added is
\* registered.
C15_CursorListenersRemoved ==
    ~homeMounted => \A l \in listeners : l.owner # "CustomCursor"

\* C16: once the audio grid is unmounted, every WebGL object its
\* initialisation created has been deleted, however the initialisation ended.
C16_GlObjectsDeleted ==
    ~homeMounted => glObjects = {}

\* C18: once the device-orientation permission is denied, VR mode is off in
\* the VR button and in the grid renderer, and stays off whatever is pressed.
C18_DeniedKeepsVROff ==
    vrPermission = "denied" => (~vrButtonMode /\ ~gridVRMode)

\* C19 as stated: after a step of animate the particle lies in
\* [0, width) x [0, height).
C19_ParticleInHalfOpenBox ==
    particleFrames > 0 =>
        /\ 0 <= particle.x /\ particle.x < CanvasWidth
        /\ 0 <= particle.y /\ particle.y < CanvasHeight

\* C19 as amended: after a step of animate the particle lies in
\* [0, width] x [0, height]; the bounds themselves are reached, because a
\* particle leaving at 0 re-enters at width (height).
C19_ParticleInClosedBox ==
    particleFrames > 0 =>
        /\ 0 <= particle.x /\ particle.x <= CanvasWidth
        /\ 0 <= particle.y /\ particle.y <= CanvasHeight

\* A particle that left through the left edge sits on the right edge, and
\* one that left through the bottom edge sits on the top edge.
C19_Witness ==
    /\ particleFrames > 0
    /\ particle.x = CanvasWidth
    /\ particle.y = 0
    /\ particle.speedX < 0 /\ particle.speedY > 0

\* C17: the frames of the square are idempotent: with the same stage, fall
\* progress, direction and time every animateEffects frame writes the same
\* transform, whatever the element held before.
C17_FrameIdempotent ==
    Cardinality(frameResults) <= 1

\* C21: a frame of the scroll sampler whose offset differs from the recorded
\* offset by at most 1 px leaves scale, scrollProgress and the recorded
\* offset unchanged; a frame whose offset differs by more than 1 px sets the
\* recorded offset to it, scrollProgress to min(1, offset / 400) and scale
\* to a value within [0.15, 1].
C21_SamplerThrottlesWrites ==
    [][(~homeFrameRan /\ homeFrameRan') =>
          IF Abs(scrollY' - previousScrollY) <= 1
          THEN UNCHANGED <<scale, scrollProgress, previousScrollY>>
          ELSE /\ previousScrollY' = scrollY'
               /\ scrollProgress' = Min(Unit, (scrollY' * Unit) \div maxScroll)
               /\ minScale <= scale' /\ scale' <= Unit
               /\ scale' = NewScale(scrollProgress')]_vars

\* A frame read an offset 1 px away from the recorded one and wrote nothing,
\* after an earlier frame had recorded the offset and its ratio and scale.
C21_Witness ==
    /\ homeFrameRan
    /\ scrollY = 401 /\ previousScrollY = 400
    /\ scrollProgress = Unit
    /\ scale = minScale

\* C22: a drag of the portal begins only on a pointer-down in the header:
\* whenever isDragging is true the drag began there, and a pointer-down on
\* the canvas leaves isDragging false.
C22_DragOnlyFromHeader ==
    isDragging => dragStartedIn = "header"

\* C23: when calculateStages paints the expansion (Expand and Final), the
\* colour is rgb(red, 0, 0) with red = max(0, 255 * (1 - e)) for the eased
\* expansion progress e: red is 255 at progress 0 and 0 at progress 1, it
\* does not increase when the progress increases from one paint to the
\* next, and green and blue are 0.
C23_RedChannelNonIncreasing ==
    squareStyle.branch = "expansion" =>
        /\ squareStyle.color[1] = Max(0, 255 * (Unit - squareStyle.eased))
        /\ squareStyle.color[2] = 0 /\ squareStyle.color[3] = 0
        /\ 0 <= squareStyle.color[1] /\ squareStyle.color[1] <= 255 * Unit
        /\ squareStyle.expansionProgress = 0 => squareStyle.color[1] = 255 * Unit
        /\ squareStyle.expansionProgress = Unit => squareStyle.color[1] = 0
        /\ (previousPaint.branch = "expansion"
              /\ previousPaint.expansionProgress <= squareStyle.expansionProgress)
             => previousPaint.color[1] >= squareStyle.color[1]

\* Two expansion paints in a row: the first at progress 0 with red 255, the
\* second part-way with a red strictly between 0 and 255.
C23_Witness ==
    /\ paintInputs.stage \in {5, 6} /\ paintInputs.canExpand
    /\ previousPaint.branch = "expansion"
    /\ previousPaint.expansionProgress = 0
    /\ previousPaint.color = <<255 * Unit, 0, 0>>
    /\ squareStyle.branch = "expansion"
    /\ squareStyle.expansionProgress = Unit \div 2
    /\ 0 < squareStyle.color[1] /\ squareStyle.color[1] < 255 * Unit

\* C25: the sub-progress of a stage is the scroll ratio normalised over
\* that stage's own range: painted as Fall with 0.45 <= s < 0.55 the fall
\* progress is (s - 0.45) / 0.10, and painted as Expand with
\* 0.55 <= s < 0.65 the expansion progress is (s - 0.55) / 0.10.
C25_SubProgressOverOwnRange ==
    /\ (squareStyle.branch = "fall"
          /\ ANIMATION_RANGES.fallToExpand[1] <= paintInputs.scroll
          /\ paintInputs.scroll < ANIMATION_RANGES.fallToExpand[2])
         => squareStyle.fallProgress =
                normalizeProgress(paintInputs.scroll, ANIMATION_RANGES.fallToExpand[1],
                                  ANIMATION_RANGES.fallToExpand[2])
    /\ (squareStyle.branch = "expansion" /\ paintInputs.stage = 5
          /\ ANIMATION_RANGES.expandToFinal[1] <= paintInputs.scroll
          /\ paintInputs.scroll < ANIMATION_RANGES.expandToFinal[2])
         => squareStyle.expansionProgress =
                normalizeProgress(paintInputs.scroll, ANIMATION_RANGES.expandToFinal[1],
                                  ANIMATION_RANGES.expandToFinal[2])

\* C24: a ratio in the Expand range or beyond is reported as Expand or
\* Final once 1000 ms have elapsed since the fall timer started and the
\* delayed check that fell due has run, with no further scroll event: the
\* check scheduled by the dwell gate opens the gate and the stage is
\* evaluated again.
C24_GateOpensAfterDwell ==
    (/\ interpolatedScroll >= ANIMATION_RANGES.expandToFinal[1]
     /\ fallStartTime # Null
     /\ now - fallStartTime >= minFallDuration
     /\ \A t \in fallTimers : t.fire > now)
        => (canExpand /\ animationStage \in {5, 6})

\* After a single scroll event the ratio is beyond 0.55, the delayed check
\* has just run 1000 ms after the timer started, and the stage is Expand or
\* Final.
C24_Witness ==
    /\ scrollChanges = 1
    /\ interpolatedScroll >= ANIMATION_RANGES.expandToFinal[1]
    /\ fallStartTime # Null
    /\ now - fallStartTime = minFallDuration
    /\ fallTimers = {}
    /\ canExpand /\ animationStage \in {5, 6}

\* C27: the gate is open only while a fall timer is running and has run for
\* at least 1000 ms: canExpand implies that fallStartTime is set and that
\* now - fallStartTime >= 1000; while the timer is unset canExpand is false.
C27_GateOpenOnlyAfterDwell ==
    canExpand => (fallStartTime # Null /\ now - fallStartTime >= minFallDuration)

\* C28: a frame of the interpolation moves interpolatedScroll toward
\* scrollProgress by 0.12 of the remaining difference and not beyond it, or
\* sets it to scrollProgress when the difference is at most 0.0001, and
\* then requests no further frame.
C28_InterpolationConverges ==
    [][(~interpFrameRan /\ interpFrameRan') =>
          LET remaining == scrollProgress - interpolatedScroll
          IN  IF Abs(remaining) > interpEpsilon
              THEN /\ interpolatedScroll' =
                         interpolatedScroll + MulDiv(remaining, smoothFactorNum, smoothFactorDen)
                   /\ Abs(scrollProgress - interpolatedScroll') <= Abs(remaining)
              ELSE /\ interpolatedScroll' = scrollProgress
                   /\ ~interpRaf']_vars

C26_DecayTicksKeepOccurring ==
    Len(glowParticles) > 0 =>
        (glowInterval # Null /\ glowInterval <= glowSince + decayInterval)

\* C30: for a fixed container and viewport, after any sequence of wheel,
\* mouse-drag, touch-drag, momentum-frame, arrow-key, indicator-click and
\* resize events, 0 <= scrollX <= getMaxScroll().
C30_ScrollXWithinBounds ==
    0 <= scrollX /\ scrollX <= getMaxScroll

\* A momentum frame asked for a position beyond the end and scrollX is at
\* the end.
C30_Witness ==
    /\ carouselSteps >= 3
    /\ requestedScrollX > getMaxScroll
    /\ velocityX = 0 /\ momentumRef = Null /\ ~cardDragging
    /\ scrollX = getMaxScroll

====
